---- MODULE Spec2Model ----
(***************************************************************************)
(* Model of the attorney and task route handlers                           *)
(*   src/src/app/api/attorneys/route.ts   GET / POST / PUT / DELETE        *)
(*   src/unnamed/part_001                 task GET / POST                  *)
(* over the store declared in src/prisma/schema.prisma (MongoDB provider). *)
(* Every await of a handler is one step, so requests interleave at the     *)
(* points where the code yields.                                           *)
(***************************************************************************)
EXTENDS Integers, Sequences, FiniteSets, TLC

VARIABLES db, req, nextId,   \* the store, the requests in flight, the id source
          calc,               \* one evaluation of a formatting helper
          form                \* the edit-patient page: React state and handler position

apiVars == <<db, req, nextId>>
pageVars == <<calc, form>>
vars == <<db, req, nextId, calc, form>>

----------------------------------------------------------------------------
(* Bounds *)

MaxReq == 2        \* requests issued in one behaviour
MaxId == 9         \* store-generated ids are 1..MaxId

Slots == 1..MaxReq

----------------------------------------------------------------------------
(* Values *)

NoId == 0          \* searchParams.get('id') === null, or an absent body field
MissingId == 99    \* a well-formed id that no row carries

Emails == {"a@x", "b@x"}

AdminUserId == 1
SeedUserId == 2
SeedAttorneyId == 3
SeedCaseManagerId == 4

\* bcrypt.hash(password, 10): never the plain text, never the empty string
Hash(password) == "$2a$10$" \o password

\* JavaScript truthiness of a string / of an id
Truthy(s) == s # ""

----------------------------------------------------------------------------
(* The store *)

AdminUser == [id |-> AdminUserId, email |-> "admin@x", name |-> "admin",
              role |-> "ADMIN", password |-> Hash("root")]

EmptyDb == [users |-> {AdminUser}, attorneys |-> {}, caseManagers |-> {},
            tasks |-> {}]

\* the store after one POST /api/attorneys {name, email, caseManagers: [one]}
SeededDb == [users |-> {AdminUser,
                        [id |-> SeedUserId, email |-> "a@x", name |-> "n",
                         role |-> "ATTORNEY", password |-> ""]},
             attorneys |-> {[id |-> SeedAttorneyId, userId |-> SeedUserId,
                             phone |-> "p1"]},
             caseManagers |-> {[id |-> SeedCaseManagerId,
                                attorneyId |-> SeedAttorneyId, name |-> "cm"]},
             tasks |-> {}]

FirstTaskId == 2
SecondTaskId == 3

\* the store after two POST /api/tasks {title, assignedToId: the admin}
TaskedDb == [users |-> {AdminUser}, attorneys |-> {}, caseManagers |-> {},
             tasks |-> {[id |-> FirstTaskId, assignedToId |-> AdminUserId,
                         title |-> "t"],
                        [id |-> SecondTaskId, assignedToId |-> AdminUserId,
                         title |-> "t"]}]

EmptyBuf == [addUsers |-> {}, addAttorneys |-> {}, addCaseManagers |-> {},
             delUsers |-> {}, delAttorneys |-> {}, delCaseManagers |-> {}]

\* what a transaction sees: the committed rows and its own staged writes
TxView(d, buf) ==
  [users |-> (d.users \ buf.delUsers) \cup buf.addUsers,
   attorneys |-> (d.attorneys \ buf.delAttorneys) \cup buf.addAttorneys,
   caseManagers |-> (d.caseManagers \ buf.delCaseManagers) \cup buf.addCaseManagers,
   tasks |-> d.tasks]

MergeBuf(buf, w) ==
  [addUsers |-> buf.addUsers \cup w.addUsers,
   addAttorneys |-> buf.addAttorneys \cup w.addAttorneys,
   addCaseManagers |-> buf.addCaseManagers \cup w.addCaseManagers,
   delUsers |-> buf.delUsers \cup w.delUsers,
   delAttorneys |-> buf.delAttorneys \cup w.delAttorneys,
   delCaseManagers |-> buf.delCaseManagers \cup w.delCaseManagers]

\* a write outside any transaction: applied to the store at once
StageAutocommit(d, buf, w) == [db |-> TxView(d, w), buf |-> buf]

\* a write made through the tx client of prisma.$transaction: staged, and
\* invisible to every other request until the transaction commits
Stage(d, buf, w) == [db |-> d, buf |-> MergeBuf(buf, w)]

\* User.email is @unique
EmailTaken(users, email) == \E u \in users : u.email = email

\* a store that lets a transaction commit after the rows it deletes are gone
CanCommitStale(d, buf) ==
  \A u \in buf.addUsers : ~ EmailTaken(d.users \ buf.delUsers, u.email)

\* a store whose unique index is not consulted when a transaction commits
CanCommitUnchecked(d, buf) ==
  /\ buf.delUsers \subseteq d.users
  /\ buf.delAttorneys \subseteq d.attorneys
  /\ buf.delCaseManagers \subseteq d.caseManagers

\* a transaction commits only if no row it deletes has been deleted under it
\* and no row it adds breaks the unique index on User.email
CanCommit(d, buf) ==
  /\ buf.delUsers \subseteq d.users
  /\ buf.delAttorneys \subseteq d.attorneys
  /\ buf.delCaseManagers \subseteq d.caseManagers
  /\ \A u \in buf.addUsers : ~ EmailTaken(d.users \ buf.delUsers, u.email)

----------------------------------------------------------------------------
(* Credentials *)

NoCred == [kind |-> "none", role |-> "", userId |-> NoId]
\* a token that fails jwtVerify (bad signature or expired)
BadCred == [kind |-> "bad", role |-> "ADMIN", userId |-> AdminUserId]
AdminCred == [kind |-> "valid", role |-> "ADMIN", userId |-> AdminUserId]
OwnerCred == [kind |-> "valid", role |-> "ATTORNEY", userId |-> SeedUserId]
OtherCred == [kind |-> "valid", role |-> "ATTORNEY", userId |-> MissingId]

Credentials == {NoCred, BadCred, AdminCred, OwnerCred, OtherCred}

\* the two carriers of a credential: [authHeader, cookie]
Carried == {[authHeader |-> NoCred, cookie |-> NoCred]}
             \cup {[authHeader |-> c, cookie |-> NoCred] : c \in Credentials \ {NoCred}}
             \cup {[authHeader |-> NoCred, cookie |-> c] : c \in Credentials \ {NoCred}}

\* String.prototype.toUpperCase on the role names in use
ToUpperCase(s) ==
  CASE s = "admin" -> "ADMIN"
    [] s = "attorney" -> "ATTORNEY"
    [] OTHER -> s

----------------------------------------------------------------------------
(* Requests *)

NoAttorney == [id |-> NoId, userId |-> NoId, phone |-> ""]
NoBody == [name |-> "", email |-> "", password |-> "", hasLogin |-> FALSE,
           phone |-> "", caseManagers |-> <<>>, title |-> "",
           assignedToId |-> NoId]

Idle == [op |-> "idle", pc |-> "idle", id |-> NoId,
         authHeader |-> NoCred, cookie |-> NoCred, session |-> FALSE,
         body |-> NoBody, payload |-> NoCred, attorney |-> NoAttorney,
         uid |-> NoId, aid |-> NoId, buf |-> EmptyBuf,
         status |-> 0, msg |-> "", result |-> <<>>,
         fault |-> "none", wrote |-> FALSE]

\* NextResponse.json(body, {status}): the request is answered
Respond(r, status, msg) == [r EXCEPT !.pc = "done", !.status = status, !.msg = msg]

\* a request may be issued on slot s once every earlier slot has been used
CanIssue(s) ==
  /\ req[s].pc = "idle"
  /\ \A t \in Slots : t < s => req[t].pc # "idle"

\* the step of request s moves its record to r and the store to d
Step(s, r, d) ==
  /\ UNCHANGED pageVars
  /\ db' = d
  /\ req' = [req EXCEPT ![s] = [r EXCEPT !.wrote = (req[s].wrote \/ d # db)]]

----------------------------------------------------------------------------
(* GET /api/attorneys *)

UserOf(d, a) == CHOOSE u \in d.users : u.id = a.userId

\* a query without include: { caseManagers: true }
AttorneyViewWithoutManagers(d, a) ==
  [id |-> a.id, userId |-> a.userId, phone |-> a.phone,
   user |-> [name |-> UserOf(d, a).name, email |-> UserOf(d, a).email],
   caseManagers |-> {}]

\* include: { caseManagers: true, user: { select: { name, email } } }
AttorneyView(d, a) ==
  [id |-> a.id, userId |-> a.userId, phone |-> a.phone,
   user |-> [name |-> UserOf(d, a).name, email |-> UserOf(d, a).email],
   caseManagers |-> {c \in d.caseManagers : c.attorneyId = a.id}]

\* a list in creation order, oldest first
RECURSIVE OrderByCreatedAtAsc(_)
OrderByCreatedAtAsc(rows) ==
  IF rows = {} THEN <<>>
  ELSE LET oldest == CHOOSE x \in rows : \A y \in rows : x.id <= y.id
       IN <<oldest>> \o OrderByCreatedAtAsc(rows \ {oldest})

\* orderBy: { createdAt: 'desc' }; ids are handed out in creation order
RECURSIVE OrderByCreatedAtDesc(_)
OrderByCreatedAtDesc(rows) ==
  IF rows = {} THEN <<>>
  ELSE LET newest == CHOOSE x \in rows : \A y \in rows : y.id <= x.id
       IN <<newest>> \o OrderByCreatedAtDesc(rows \ {newest})

ViewAll(d, rows) ==
  LET sorted == OrderByCreatedAtDesc(rows)
  IN [i \in 1..Len(sorted) |-> AttorneyView(d, sorted[i])]

GetIds == {NoId, SeedAttorneyId, MissingId}

GET(s) ==
  /\ CanIssue(s)
  /\ nextId' = nextId
  /\ \E id \in GetIds :
       LET r == [Idle EXCEPT !.op = "GET", !.id = id]
           found == {a \in db.attorneys : a.id = id}
           rows == IF id # NoId THEN found ELSE db.attorneys
       IN
       IF \E a \in rows : ~ \E u \in db.users : u.id = a.userId
       THEN \* the required relation user cannot be resolved: the query throws
            Step(s, Respond(r, 500, "Failed to fetch attorneys"), db)
       ELSE IF id # NoId /\ found = {}
       THEN Step(s, Respond(r, 404, "Attorney not found"), db)
       ELSE Step(s, [Respond(r, 200, "") EXCEPT !.result = ViewAll(db, rows)], db)

----------------------------------------------------------------------------
(* POST /api/attorneys *)

CmOk == [name |-> "cm", email |-> "cm@x", phone |-> "555"]
CmNoPhone == [name |-> "cm2", email |-> "cm2@x", phone |-> ""]

CaseManagerLists == {<<>>, <<CmOk>>, <<CmOk, CmNoPhone>>}

PostBodies ==
  {[NoBody EXCEPT !.name = n, !.email = e, !.password = p, !.hasLogin = h,
                  !.phone = "p1", !.caseManagers = cms] :
     n \in {"", "n"}, e \in Emails \cup {""}, p \in {"", "pw"},
     h \in BOOLEAN, cms \in CaseManagerLists}

\* the request bodies issued: one representative of each rejected shape, and
\* every accepted shape
PostInputs ==
  {b \in PostBodies :
     \/ Truthy(b.name) /\ Truthy(b.email) /\ (b.hasLogin => Truthy(b.password))
     \/ b.caseManagers = <<>> /\ b.email # "b@x"
          /\ (Truthy(b.name) /\ Truthy(b.email) => b.hasLogin)
          /\ (~ Truthy(b.name) \/ ~ Truthy(b.email) => ~ b.hasLogin /\ b.password = "")}

\* a handler that persists every submitted case manager
ValidCaseManagersUnfiltered(cms) == cms

\* caseManagers.filter(manager => manager.name && manager.email && manager.phone)
RECURSIVE ValidCaseManagers(_)
ValidCaseManagers(cms) ==
  IF cms = <<>> THEN <<>>
  ELSE LET m == Head(cms)
           rest == ValidCaseManagers(Tail(cms))
       IN IF Truthy(m.name) /\ Truthy(m.email) /\ Truthy(m.phone)
          THEN <<m>> \o rest ELSE rest

\* lines 87-109: read the body, validate name/email and the login password
POST(s) ==
  /\ CanIssue(s)
  /\ nextId' = nextId
  /\ \E body \in PostInputs, cred \in {NoCred, AdminCred} :
       LET r == [Idle EXCEPT !.op = "POST", !.body = body, !.authHeader = cred]
       IN
       IF ~ Truthy(body.name) \/ ~ Truthy(body.email)
       THEN Step(s, Respond(r, 400, "Name and email are required"), db)
       ELSE IF body.hasLogin /\ ~ Truthy(body.password)
       THEN Step(s, Respond(r, 400,
                    "Password is required when login access is enabled"), db)
       ELSE Step(s, [r EXCEPT !.pc = "postFindUser"], db)

\* lines 111-122: the pre-flight read of the email
PostFindUser(s) ==
  /\ req[s].pc = "postFindUser"
  /\ nextId' = nextId
  /\ IF EmailTaken(db.users, req[s].body.email)
     THEN Step(s, Respond(req[s], 400, "Email already registered"), db)
     ELSE Step(s, [req[s] EXCEPT !.pc = "postCreateUser"], db)

\* the catch block of POST, lines 213-233
PostCatch(r, fault) ==
  CASE fault = "P2002" ->
         Respond([r EXCEPT !.fault = fault, !.buf = EmptyBuf], 400,
           "A unique constraint violation occurred. The email may already be registered.")
    [] fault = "known" ->
         Respond([r EXCEPT !.fault = fault, !.buf = EmptyBuf], 400,
           "Database error: <error.message>")
    [] OTHER ->
         Respond([r EXCEPT !.fault = fault, !.buf = EmptyBuf], 500,
           "<error.message>")

\* a handler that hashes whatever password the body carries
UserPasswordIfGiven(hasLogin, password) ==
  IF Truthy(password) THEN Hash(password) ELSE ""

\* line 138: hasLogin && password ? await bcrypt.hash(password, 10) : ''
UserPassword(hasLogin, password) ==
  IF hasLogin /\ Truthy(password) THEN Hash(password) ELSE ""

\* lines 133-143: tx.user.create
PostCreateUser(s) ==
  /\ req[s].pc = "postCreateUser"
  /\ nextId <= MaxId
  /\ nextId' = nextId + 1
  /\ LET r == req[s]
         b == r.body
         user == [id |-> nextId, email |-> b.email, name |-> b.name,
                  role |-> "ATTORNEY",
                  password |-> UserPassword(b.hasLogin, b.password)]
         st == Stage(db, r.buf, [EmptyBuf EXCEPT !.addUsers = {user}])
     IN
     IF EmailTaken(TxView(db, r.buf).users, b.email)
     THEN Step(s, PostCatch(r, "P2002"), db)
     ELSE Step(s, [r EXCEPT !.pc = "postCreateAttorney", !.uid = nextId,
                            !.buf = st.buf], st.db)

\* what the store can answer to a write
WriteOutcomes == {"ok", "known", "error"}

\* lines 158-185: tx.attorney.create, returning the profile with its user
\* and its (still empty) case managers
PostCreateAttorney(s) ==
  /\ req[s].pc = "postCreateAttorney"
  /\ nextId <= MaxId
  /\ nextId' = nextId + 1
  /\ \E outcome \in WriteOutcomes :
       LET r == req[s]
           att == [id |-> nextId, userId |-> r.uid, phone |-> r.body.phone]
           st == Stage(db, r.buf, [EmptyBuf EXCEPT !.addAttorneys = {att}])
           seen == TxView(st.db, st.buf)
       IN
       IF outcome # "ok"
       THEN Step(s, PostCatch(r, outcome), db)
       ELSE Step(s, [r EXCEPT !.pc = "postCreateCaseManagers", !.aid = nextId,
                              !.buf = st.buf,
                              !.result = <<AttorneyView(seen, att)>>], st.db)

\* lines 187-206: tx.caseManager.createMany for the valid case managers
PostCreateCaseManagers(s) ==
  /\ req[s].pc = "postCreateCaseManagers"
  /\ LET r == req[s]
         valid == ValidCaseManagers(r.body.caseManagers)
         rows == {[id |-> nextId + i - 1, attorneyId |-> r.aid,
                   name |-> valid[i].name] : i \in 1..Len(valid)}
         st == Stage(db, r.buf, [EmptyBuf EXCEPT !.addCaseManagers = rows])
     IN
     /\ nextId + Len(valid) - 1 <= MaxId
     /\ nextId' = nextId + Len(valid)
     /\ Step(s, [r EXCEPT !.pc = "postCommit", !.buf = st.buf], st.db)

\* line 209: the transaction callback has returned and the transaction commits
PostCommit(s) ==
  /\ req[s].pc = "postCommit"
  /\ nextId' = nextId
  /\ LET r == req[s]
     IN IF CanCommit(db, r.buf)
        THEN Step(s, Respond(r, 200, ""), TxView(db, r.buf))
        ELSE Step(s, PostCatch(r, "P2002"), db)

----------------------------------------------------------------------------
(* PUT /api/attorneys *)

TargetIds == {NoId, SeedAttorneyId, MissingId}

PutBodies == {[NoBody EXCEPT !.password = "pw"], [NoBody EXCEPT !.phone = "p2"]}

\* the property read from the awaited result of jwtVerify
AwaitedProperty(cred, name) == cred[name]

\* a property read off a Promise that has not been awaited (line 250-251):
\* a Promise has no own property of that name
PromiseProperty(cred, name) == "undefined"

\* lines 259-276: the transaction of PUT, attorney.update then user.update.
\* Fields absent from the body (modelled as "") are left alone.
PutTransaction(d, id, body) ==
  LET old == CHOOSE a \in d.attorneys : a.id = id
      new == [old EXCEPT !.phone = IF body.phone # "" THEN body.phone ELSE @]
      atts == (d.attorneys \ {old}) \cup {new}
      usr == CHOOSE u \in d.users : u.id = old.userId
      users == IF Truthy(body.password)
               THEN (d.users \ {usr}) \cup {[usr EXCEPT !.password = Hash(body.password)]}
               ELSE d.users
  IN [d EXCEPT !.attorneys = atts, !.users = users]

PUT(s) ==
  /\ CanIssue(s)
  /\ nextId' = nextId
  /\ \E id \in TargetIds, c \in Carried, body \in PutBodies :
       LET found == {a \in db.attorneys : a.id = id}
           r == [Idle EXCEPT !.op = "PUT", !.id = id, !.body = body,
                             !.authHeader = c.authHeader, !.cookie = c.cookie,
                             !.attorney = IF found = {} THEN NoAttorney
                                          ELSE CHOOSE a \in found : TRUE]
           token == c.authHeader
       IN
       IF id = NoId
       THEN Step(s, Respond(r, 400, "Attorney ID is required"), db)
       ELSE IF token.kind = "none"
       THEN Step(s, Respond(r, 401, "Unauthorized"), db)
       ELSE IF PromiseProperty(token, "role") # "ADMIN"
       THEN Step(s, Respond(r, 401, "Unauthorized"), db)
       ELSE IF \/ ~ \E a \in db.attorneys : a.id = id
               \/ \E a \in db.attorneys :
                    a.id = id /\ ~ \E u \in db.users : u.id = a.userId
       THEN Step(s, Respond(r, 500, "Failed to update attorney"), db)
       ELSE Step(s, [Respond(r, 200, "") EXCEPT
                       !.result = ViewAll(PutTransaction(db, id, body),
                                   {a \in PutTransaction(db, id, body).attorneys :
                                      a.id = id})],
                 PutTransaction(db, id, body))

----------------------------------------------------------------------------
(* DELETE /api/attorneys *)

DeleteCatch(r, fault) ==
  Respond([r EXCEPT !.fault = fault, !.buf = EmptyBuf], 500,
          "Failed to delete attorney")

\* a handler that also accepts the token of the Authorization header
TokenOfEitherCarrier(c) == IF c.cookie # NoCred THEN c.cookie ELSE c.authHeader

\* lines 302-303: cookieStore.get('token')?.value
TokenCookie(c) == c.cookie

\* lines 289-315: the id parameter, the token cookie, jwtVerify
DELETE(s) ==
  /\ CanIssue(s)
  /\ nextId' = nextId
  /\ \E id \in TargetIds, c \in Carried :
       LET r == [Idle EXCEPT !.op = "DELETE", !.id = id,
                             !.authHeader = c.authHeader, !.cookie = c.cookie]
           token == TokenCookie(c)
       IN
       IF id = NoId
       THEN Step(s, Respond(r, 400, "Attorney ID is required"), db)
       ELSE IF token.kind = "none"
       THEN Step(s, Respond(r, 401, "Unauthorized"), db)
       ELSE IF token.kind = "bad"
       THEN \* jwtVerify rejects and the catch block answers
            Step(s, DeleteCatch(r, "jwt"), db)
       ELSE Step(s, [r EXCEPT !.pc = "deleteFind", !.payload = token], db)

\* lines 331-334: neither admin nor the attorney themselves
ForbiddenUnlessAdmin(payload, attorney) == ToUpperCase(payload.role) # "ADMIN"

Forbidden(payload, attorney) ==
  LET isAdmin == ToUpperCase(payload.role) = "ADMIN"
      isOwnProfile == attorney.userId = payload.userId
  IN ~ isAdmin /\ ~ isOwnProfile

\* lines 317-339: read the attorney, decide admin or own profile
DeleteFind(s) ==
  /\ req[s].pc = "deleteFind"
  /\ nextId' = nextId
  /\ LET r == req[s]
         found == {a \in db.attorneys : a.id = r.id}
         attorney == CHOOSE a \in found : TRUE
     IN
     IF found = {}
     THEN Step(s, Respond(r, 404, "Attorney not found"), db)
     ELSE IF Forbidden(r.payload, attorney)
     THEN Step(s, Respond([r EXCEPT !.attorney = attorney], 403, "Unauthorized"), db)
     ELSE Step(s, [r EXCEPT !.pc = "deleteCaseManagers", !.attorney = attorney], db)

\* what a handler that forgot the deleteMany would select
CaseManagersOfNone(d, id) == {}

\* where: { attorneyId: id }
CaseManagersOf(d, id) == {c \in d.caseManagers : c.attorneyId = id}

\* what the store answers when a row that other rows still reference is
\* deleted: the relation is emulated by the client (the delete is refused)
\* or not checked at all (MongoDB has no foreign keys)
RelationModes == {"restrict", "unchecked"}

\* lines 344-346: tx.caseManager.deleteMany({ where: { attorneyId: id } })
DeleteCaseManagers(s) ==
  /\ req[s].pc = "deleteCaseManagers"
  /\ nextId' = nextId
  /\ LET r == req[s]
         rows == CaseManagersOf(TxView(db, r.buf), r.id)
         st == Stage(db, r.buf, [EmptyBuf EXCEPT !.delCaseManagers = rows])
     IN Step(s, [r EXCEPT !.pc = "deleteAttorney", !.buf = st.buf], st.db)

\* lines 349-351: tx.attorney.delete({ where: { id } })
DeleteAttorney(s) ==
  /\ req[s].pc = "deleteAttorney"
  /\ nextId' = nextId
  /\ \E mode \in RelationModes :
       LET r == req[s]
           seen == TxView(db, r.buf)
           rows == {a \in seen.attorneys : a.id = r.id}
           st == Stage(db, r.buf, [EmptyBuf EXCEPT !.delAttorneys = rows])
           referenced == \E c \in seen.caseManagers : c.attorneyId = r.id
       IN IF rows = {}
          THEN Step(s, DeleteCatch(r, "P2025"), db)
          ELSE IF referenced /\ mode = "restrict"
          THEN Step(s, DeleteCatch(r, "P2014"), db)
          ELSE Step(s, [r EXCEPT !.pc = "deleteUser", !.buf = st.buf], st.db)

\* lines 354-356: tx.user.delete({ where: { id: attorney.userId } })
DeleteUser(s) ==
  /\ req[s].pc = "deleteUser"
  /\ nextId' = nextId
  /\ \E mode \in RelationModes :
       LET r == req[s]
           seen == TxView(db, r.buf)
           rows == {u \in seen.users : u.id = r.attorney.userId}
           st == Stage(db, r.buf, [EmptyBuf EXCEPT !.delUsers = rows])
           referenced == \/ \E t \in seen.tasks : t.assignedToId = r.attorney.userId
                         \/ \E a \in seen.attorneys : a.userId = r.attorney.userId
       IN IF rows = {}
          THEN Step(s, DeleteCatch(r, "P2025"), db)
          ELSE IF referenced /\ mode = "restrict"
          THEN Step(s, DeleteCatch(r, "P2014"), db)
          ELSE Step(s, [r EXCEPT !.pc = "deleteCommit", !.buf = st.buf], st.db)

\* line 357: the transaction commits; line 359 answers
DeleteCommit(s) ==
  /\ req[s].pc = "deleteCommit"
  /\ nextId' = nextId
  /\ LET r == req[s]
     IN IF CanCommit(db, r.buf)
        THEN Step(s, Respond(r, 200, "Attorney deleted successfully"),
                  TxView(db, r.buf))
        ELSE Step(s, DeleteCatch(r, "P2034"), db)

----------------------------------------------------------------------------
(* POST /api/tasks *)

AssigneeIds == {NoId, AdminUserId, SeedUserId, MissingId}

TaskBodies == {[NoBody EXCEPT !.title = t, !.assignedToId = a] :
                 t \in {"", "t"}, a \in AssigneeIds}

TaskInputs == {b \in TaskBodies : Truthy(b.title) \/ b.assignedToId = AdminUserId}

\* part_001 lines 9 and 44: !session?.user
Unauthenticated(session) == ~ session

\* include: { assignedTo: { select: { id, name, email } } }
TaskView(d, t) ==
  LET u == CHOOSE x \in d.users : x.id = t.assignedToId
  IN [id |-> t.id, assignedToId |-> t.assignedToId, title |-> t.title,
      assignedTo |-> [id |-> u.id, name |-> u.name, email |-> u.email]]

\* part_001 lines 6-39
TaskGET(s) ==
  /\ CanIssue(s)
  /\ nextId' = nextId
  /\ \E session \in BOOLEAN :
       LET r == [Idle EXCEPT !.op = "TaskGET", !.session = session]
           sorted == OrderByCreatedAtDesc(db.tasks)
       IN
       IF Unauthenticated(session)
       THEN Step(s, Respond(r, 401, "Unauthorized"), db)
       ELSE IF \E t \in db.tasks : ~ \E u \in db.users : u.id = t.assignedToId
       THEN \* the required relation assignedTo cannot be resolved
            Step(s, Respond([r EXCEPT !.fault = "include"], 500, "Internal error"), db)
       ELSE Step(s, [Respond(r, 200, "") EXCEPT
                       !.result = [i \in 1..Len(sorted) |-> TaskView(db, sorted[i])]],
                 db)

\* part_001 lines 41-88
TaskPOST(s) ==
  /\ CanIssue(s)
  /\ \E session \in BOOLEAN, body \in TaskInputs :
       LET r == [Idle EXCEPT !.op = "TaskPOST", !.session = session, !.body = body]
           task == [id |-> nextId, assignedToId |-> body.assignedToId,
                    title |-> body.title]
       IN
       IF Unauthenticated(session)
       THEN nextId' = nextId /\ Step(s, Respond(r, 401, "Unauthorized"), db)
       ELSE IF ~ Truthy(body.title)
       THEN nextId' = nextId /\ Step(s, Respond(r, 400, "Title is required"), db)
       ELSE IF body.assignedToId = NoId
       THEN \* assignedToId is a required field: the client rejects the call
            nextId' = nextId
            /\ Step(s, Respond([r EXCEPT !.fault = "validation"], 500,
                               "Internal error"), db)
       ELSE /\ nextId <= MaxId
            /\ nextId' = nextId + 1
            /\ IF \E u \in db.users : u.id = body.assignedToId
               THEN Step(s, [Respond(r, 200, "") EXCEPT
                               !.result = <<TaskView(db, task)>>],
                         [db EXCEPT !.tasks = @ \cup {task}])
               ELSE \* the row is written; the include of the required
                    \* relation assignedTo then fails
                    Step(s, Respond([r EXCEPT !.fault = "include"], 500,
                                    "Internal error"),
                         [db EXCEPT !.tasks = @ \cup {task}])

----------------------------------------------------------------------------
(* The edit-patient page (src/unnamed/part_000) *)

CalcIdle == [fn |-> "none", pc |-> "idle"]
FormIdle == [pc |-> "unmounted"]

(* Strings are sequences of one-character strings. *)

Digits == <<"0", "1", "2", "3", "4", "5", "6", "7", "8", "9">>
IsDigit(c) == \E i \in 1..10 : Digits[i] = c
DigitValue(c) == (CHOOSE i \in 1..10 : Digits[i] = c) - 1

\* the values null and NaN
Null == <<"null">>
NaN == -1

\* Number.prototype.toString for a natural number
RECURSIVE NumberToString(_)
NumberToString(n) ==
  IF n < 10 THEN <<Digits[n + 1]>>
  ELSE NumberToString(n \div 10) \o <<Digits[(n % 10) + 1]>>

\* String.prototype.padStart(width, '0')
RECURSIVE PadStart(_, _)
PadStart(str, width) ==
  IF Len(str) >= width THEN str ELSE PadStart(<<"0">> \o str, width)

\* value.replace(/\D/g, '')
RECURSIVE StripNonDigits(_)
StripNonDigits(str) ==
  IF str = <<>> THEN <<>>
  ELSE IF IsDigit(Head(str)) THEN <<Head(str)>> \o StripNonDigits(Tail(str))
  ELSE StripNonDigits(Tail(str))

\* String.prototype.slice(from, to) with 0 <= from, to (0-based, to exclusive)
Slice(str, from, to) ==
  LET hi == IF to > Len(str) THEN Len(str) ELSE to
  IN IF from >= hi THEN <<>> ELSE SubSeq(str, from + 1, hi)

\* String.prototype.split(sep) for a one-character separator
RECURSIVE Split(_, _)
Split(str, sep) ==
  IF \A i \in 1..Len(str) : str[i] # sep THEN <<str>>
  ELSE LET k == CHOOSE i \in 1..Len(str) :
                  str[i] = sep /\ \A j \in 1..(i - 1) : str[j] # sep
       IN <<SubSeq(str, 1, k - 1)>> \o Split(SubSeq(str, k + 1, Len(str)), sep)

\* the value of a string of digits
RECURSIVE DigitsValue(_)
DigitsValue(str) ==
  IF str = <<>> THEN 0
  ELSE 10 * DigitsValue(SubSeq(str, 1, Len(str) - 1)) + DigitValue(str[Len(str)])

\* parseInt of an unsigned string: the value of its leading digits, NaN when
\* it has none (also for undefined, a missing part of a destructured split)
ParseInt(str) ==
  LET n == IF \A i \in 1..Len(str) : IsDigit(str[i]) THEN Len(str)
           ELSE (CHOOSE i \in 1..Len(str) :
                   ~ IsDigit(str[i]) /\ \A j \in 1..(i - 1) : IsDigit(str[j])) - 1
  IN IF n = 0 THEN NaN ELSE DigitsValue(SubSeq(str, 1, n))

(* The Date object: an instant is a number of minutes, counted from
   1600-01-01T00:00Z so that every value of the model is positive. *)

IsLeapYear(y) == (y % 4 = 0 /\ y % 100 # 0) \/ y % 400 = 0

DaysInMonth(y, m) ==
  CASE m \in {4, 6, 9, 11} -> 30
    [] m = 2 -> IF IsLeapYear(y) THEN 29 ELSE 28
    [] OTHER -> 31

LeapDaysBefore(y) == ((y - 1) \div 4) - ((y - 1) \div 100) + ((y - 1) \div 400)

RECURSIVE DaysBeforeMonth(_, _)
DaysBeforeMonth(y, m) ==
  IF m = 1 THEN 0 ELSE DaysBeforeMonth(y, m - 1) + DaysInMonth(y, m - 1)

\* the day number of the first day of month m of year y
DayNumber(y, m) ==
  365 * (y - 1600) + (LeapDaysBefore(y) - LeapDaysBefore(1600)) + DaysBeforeMonth(y, m)

\* the calendar fields of a day number
CivilFromDays(n) ==
  LET y == CHOOSE yy \in 1890..2110 : DayNumber(yy, 1) <= n /\ n < DayNumber(yy + 1, 1)
      m == CHOOSE mm \in 1..12 :
             /\ DayNumber(y, mm) <= n
             /\ n < DayNumber(y, mm) + DaysInMonth(y, mm)
  IN [year |-> y, month |-> m, day |-> n - DayNumber(y, m) + 1]

MinutesPerDay == 1440

\* the offsets of local time from UTC, in minutes, of the browsers modelled
TimeZones == {-360, 0, 330}

\* a Date read in UTC where local time was meant
LocalTimeAsUtc(instant, tz) == instant

\* getFullYear/getMonth/getDate read the instant in local time
LocalTime(instant, tz) == instant + tz

\* new Date(year, monthIndex, day): local midnight; a day past the end of the
\* month rolls over into the following month
NewDate(year, monthIndex, day, tz) ==
  (DayNumber(year, monthIndex + 1) + day - 1) * MinutesPerDay - tz

\* Date.prototype.toISOString: YYYY-MM-DDTHH:mm:ss.sssZ, in UTC
ToISOString(instant) ==
  LET c == CivilFromDays(instant \div MinutesPerDay)
      mins == instant % MinutesPerDay
  IN PadStart(NumberToString(c.year), 4) \o <<"-">> \o PadStart(NumberToString(c.month), 2)
       \o <<"-">> \o PadStart(NumberToString(c.day), 2) \o <<"T">>
       \o PadStart(NumberToString(mins \div 60), 2) \o <<":">>
       \o PadStart(NumberToString(mins % 60), 2) \o <<":", "0", "0", ".", "0", "0", "0", "Z">>

\* new Date(isoString)
DateFromISO(iso) ==
  (DayNumber(DigitsValue(Slice(iso, 0, 4)), DigitsValue(Slice(iso, 5, 7)))
     + DigitsValue(Slice(iso, 8, 10)) - 1) * MinutesPerDay
  + 60 * DigitsValue(Slice(iso, 11, 13)) + DigitsValue(Slice(iso, 14, 16))

\* formatDate
FormatDate(dateString, tz) ==
  IF dateString = Null \/ dateString = <<>> THEN <<>>
  ELSE LET date == DateFromISO(dateString)
           c == CivilFromDays(LocalTime(date, tz) \div MinutesPerDay)
           month == PadStart(NumberToString(c.month), 2)
           day == PadStart(NumberToString(c.day), 2)
           year == NumberToString(c.year)
       IN month \o <<"/">> \o day \o <<"/">> \o year

\* parts[i] of a destructured array: undefined (here the empty string, which
\* parseInt also turns into NaN) past the end
Part(parts, i) == IF i <= Len(parts) THEN parts[i] ELSE <<>>

\* parseDate
ParseDate(dateString, tz) ==
  IF dateString = <<>> THEN Null
  ELSE LET parts == Split(dateString, "/")
           monthNum == ParseInt(Part(parts, 1))
           dayNum == ParseInt(Part(parts, 2))
           yearNum == ParseInt(Part(parts, 3))
       IN IF monthNum = NaN \/ dayNum = NaN \/ yearNum = NaN THEN Null
          ELSE IF monthNum < 1 \/ monthNum > 12 THEN Null
          ELSE IF dayNum < 1 \/ dayNum > 31 THEN Null
          ELSE IF yearNum < 1900 \/ yearNum > 2100 THEN Null
          ELSE ToISOString(NewDate(yearNum, monthNum - 1, dayNum, tz))

\* the text MM/DD/YYYY of three numbers
DateText(m, d, y) ==
  PadStart(NumberToString(m), 2) \o <<"/">> \o PadStart(NumberToString(d), 2) \o <<"/">>
    \o PadStart(NumberToString(y), 4)

DateMonths == 0..13
DateDays == 0..32
DateYears == {1899, 1900, 2023, 2024, 2100, 2101}

\* one evaluation parseDate(input) followed by formatDate of its result
InitDate ==
  /\ db = EmptyDb /\ nextId = SeedUserId /\ req = [s \in Slots |-> Idle]
  /\ form = FormIdle
  /\ \E m \in DateMonths, d \in DateDays, y \in DateYears, tz \in TimeZones,
        malformed \in {"no", "empty", "short"} :
       /\ malformed # "no" => (m = 1 /\ d = 1 /\ y = 2024)
       /\ calc = [fn |-> "date", pc |-> "input", month |-> m, day |-> d,
                  year |-> y, tz |-> tz, malformed |-> malformed,
                  input |-> CASE malformed = "no" -> DateText(m, d, y)
                              [] malformed = "empty" -> <<>>
                              [] OTHER -> Slice(DateText(m, d, y), 0, 5),
                  parsed |-> Null, formatted |-> <<>>]

CallParseDate ==
  /\ calc.fn = "date" /\ calc.pc = "input"
  /\ calc' = [calc EXCEPT !.pc = "parsed", !.parsed = ParseDate(calc.input, calc.tz)]
  /\ UNCHANGED <<apiVars, form>>

CallFormatDate ==
  /\ calc.fn = "date" /\ calc.pc = "parsed"
  /\ calc' = [calc EXCEPT !.pc = "formatted",
                          !.formatted = FormatDate(calc.parsed, calc.tz)]
  /\ UNCHANGED <<apiVars, form>>

NextDate == CallParseDate \/ CallFormatDate

SpecDate == InitDate /\ [][NextDate]_vars

(* formatPhoneNumber *)

\* the layout with an opening parenthesis before the first digit
FormatPhoneNumberParenFirst(value) ==
  LET numbers == StripNonDigits(value)
  IN IF Len(numbers) = 0 THEN numbers
     ELSE IF Len(numbers) <= 3 THEN <<"(">> \o numbers
     ELSE IF Len(numbers) <= 6
       THEN <<"(">> \o Slice(numbers, 0, 3) \o <<")", " ">> \o Slice(numbers, 3, Len(numbers))
     ELSE <<"(">> \o Slice(numbers, 0, 3) \o <<")", " ">> \o Slice(numbers, 3, 6)
            \o <<"-">> \o Slice(numbers, 6, 10)

FormatPhoneNumber(value) ==
  LET numbers == StripNonDigits(value)
  IN IF Len(numbers) <= 3 THEN numbers
     ELSE IF Len(numbers) <= 6
       THEN <<"(">> \o Slice(numbers, 0, 3) \o <<")", " ">> \o Slice(numbers, 3, Len(numbers))
     ELSE <<"(">> \o Slice(numbers, 0, 3) \o <<")", " ">> \o Slice(numbers, 3, 6)
            \o <<"-">> \o Slice(numbers, 6, 10)

MaxPhoneLen == 11
PhoneDigits == {"0", "7"}

RECURSIVE StringsUpTo(_, _)
StringsUpTo(alphabet, n) ==
  IF n = 0 THEN {<<>>}
  ELSE LET shorter == StringsUpTo(alphabet, n - 1)
       IN shorter \cup {Append(str, c) : str \in {x \in shorter : Len(x) = n - 1},
                                         c \in alphabet}

\* one evaluation formatPhoneNumber(input)
InitPhone ==
  /\ db = EmptyDb /\ nextId = SeedUserId /\ req = [s \in Slots |-> Idle]
  /\ form = FormIdle
  /\ \E d \in StringsUpTo(PhoneDigits, MaxPhoneLen) :
       calc = [fn |-> "phone", pc |-> "input", input |-> d, output |-> <<>>]

CallFormatPhoneNumber ==
  /\ calc.fn = "phone" /\ calc.pc = "input"
  /\ calc' = [calc EXCEPT !.pc = "formatted", !.output = FormatPhoneNumber(calc.input)]
  /\ UNCHANGED <<apiVars, form>>

NextPhone == CallFormatPhoneNumber

SpecPhone == InitPhone /\ [][NextPhone]_vars

(* The edit-patient page.  Of the form's fields the model keeps the ones the
   submit handler tests or converts; the others pass through unchanged. *)

\* value || ''
OrEmpty(value) == IF value = Null THEN <<>> ELSE value

\* String.prototype.trim
RECURSIVE Trim(_)
Trim(str) ==
  IF str = <<>> THEN str
  ELSE IF Head(str) = " " THEN Trim(Tail(str))
  ELSE IF str[Len(str)] = " " THEN Trim(SubSeq(str, 1, Len(str) - 1))
  ELSE str

\* useState initial value of formData
InitialFormData ==
  [firstName |-> <<>>, lastName |-> <<>>, dateOfBirth |-> <<>>, phone |-> <<>>,
   altNumber |-> <<>>, doidol |-> <<>>, statusId |-> <<>>, payerId |-> <<>>,
   orderDate |-> <<>>, procedures |-> <<>>]

\* the rows GET /api/patients/{id} may answer with
StoredProcedure ==
  [examId |-> <<"e">>, scheduleDate |-> ToISOString(NewDate(2024, 2, 1, 0)),
   scheduleTime |-> <<"0", "9", ":", "0", "0">>, facilityId |-> <<"f">>,
   physicianId |-> <<"d">>, statusId |-> <<"s">>]

Patients ==
  {[firstName |-> <<"A">>, lastName |-> <<"B">>,
    dateOfBirth |-> ToISOString(NewDate(2024, 0, 15, 0)),
    phone |-> <<"7", "0", "7", "0", "0", "7", "7", "0", "0", "7">>, altNumber |-> Null, doidol |-> Null,
    statusId |-> <<"s">>, payerId |-> <<"p">>, orderDate |-> Null,
    procedures |-> <<>>],
   [firstName |-> <<"A">>, lastName |-> <<"B">>, dateOfBirth |-> Null,
    phone |-> <<"7", "0", "7", "0", "0", "7", "7", "0", "0", "7">>, altNumber |-> <<"7", "0", "7", "0", "0", "7", "7">>,
    doidol |-> ToISOString(NewDate(2023, 11, 31, 0)),
    statusId |-> <<"s">>, payerId |-> <<"p">>,
    orderDate |-> ToISOString(NewDate(2024, 1, 29, 0)),
    procedures |-> <<StoredProcedure>>]}

ListNames ==
  {"attorneys", "payers", "doctors", "statuses", "facilities", "physicians", "exams"}

\* what the user may type into an input
Typed ==
  [firstName |-> {<<" ">>},
   phone |-> {<<"7", "0", "7", "0", "0", "7", "7", "0", "0", "7">>},
   dateOfBirth |-> {<<"0", "2", "/", "3", "0", "/", "2", "0", "2", "4">>, <<"1", "3", "4", "5">>}]

FieldNames == DOMAIN Typed

\* the page after mounting: the effect has started fetchPatient and the
\* seven list fetches
InitForm ==
  /\ db = EmptyDb /\ nextId = SeedUserId /\ req = [s \in Slots |-> Idle]
  /\ calc = CalcIdle
  /\ \E patient \in Patients, tz \in TimeZones :
       form = [pc |-> "mounted", tz |-> tz, patient |-> patient,
               patientPending |-> TRUE, listsPending |-> ListNames,
               loading |-> TRUE, error |-> "", formData |-> InitialFormData,
               put |-> "none", sent |-> InitialFormData,
               submitted |-> InitialFormData]

SetForm(f) == form' = f /\ UNCHANGED <<apiVars, calc>>

\* lines 528-558: the form is rendered only past the loading and error returns
FormRendered(f) == f.pc = "mounted" /\ ~ f.loading /\ ~ Truthy(f.error)

\* the inputs marked required hold a value (the browser does not dispatch the
\* submit event otherwise)
RequiredFilled(formData) ==
  /\ formData.firstName # <<>> /\ formData.lastName # <<>>
  /\ formData.dateOfBirth # <<>> /\ formData.phone # <<>>
  /\ formData.statusId # <<>> /\ formData.payerId # <<>>
  /\ \A i \in 1..Len(formData.procedures) :
       LET proc == formData.procedures[i]
       IN /\ proc.examId # <<>> /\ proc.scheduleDate # <<>>
          /\ proc.scheduleTime # <<>> /\ proc.facilityId # <<>>
          /\ proc.physicianId # <<>> /\ proc.statusId # <<>>

\* fetchPatient, from the response on
FetchPatient ==
  /\ form.pc = "mounted" /\ form.patientPending
  /\ \E ok \in BOOLEAN :
       LET data == form.patient
           formattedProcedures ==
             [i \in 1..Len(data.procedures) |->
                [data.procedures[i] EXCEPT
                   !.scheduleDate = FormatDate(data.procedures[i].scheduleDate, form.tz),
                   !.scheduleTime = OrEmpty(data.procedures[i].scheduleTime)]]
       IN SetForm([form EXCEPT
            !.patientPending = FALSE,
            !.loading = FALSE,
            !.error = IF ok THEN @ ELSE "Failed to load patient",
            !.formData =
              IF ok
                THEN [firstName |-> OrEmpty(data.firstName),
                      lastName |-> OrEmpty(data.lastName),
                      dateOfBirth |-> FormatDate(data.dateOfBirth, form.tz),
                      phone |-> OrEmpty(data.phone),
                      altNumber |-> OrEmpty(data.altNumber),
                      doidol |-> FormatDate(data.doidol, form.tz),
                      statusId |-> OrEmpty(data.statusId),
                      payerId |-> OrEmpty(data.payerId),
                      orderDate |-> FormatDate(data.orderDate, form.tz),
                      procedures |-> formattedProcedures]
                ELSE @])

\* fetchAttorneys, fetchPayers, fetchDoctors, fetchStatuses, fetchFacilities,
\* fetchPhysicians, fetchExams, from the response on
FetchList ==
  /\ form.pc = "mounted"
  /\ \E name \in form.listsPending, ok \in BOOLEAN :
       SetForm([form EXCEPT
         !.listsPending = @ \ {name},
         !.error = IF ok THEN @ ELSE "Failed to load " \o name])

\* a mask that leaves the month as typed once the day has begun
DateMaskMonthAsTyped(value) ==
  LET numbers == Slice(StripNonDigits(value), 0, 8)
      month == Slice(numbers, 0, 2)
      day == Slice(numbers, 2, 4)
      year == Slice(numbers, 4, 8)
  IN IF Len(numbers) <= 2 THEN numbers
     ELSE IF Len(numbers) <= 4
       THEN month \o <<"/">> \o Slice(numbers, 2, Len(numbers))
     ELSE month
            \o (IF ParseInt(day) > 31 THEN <<"/", "3", "1">> ELSE <<"/">> \o day)
            \o (IF year # <<>> THEN <<"/">> \o year ELSE <<>>)

\* lines 481-520: the MM/DD/YYYY mask of handleChange
DateMask(value) ==
  LET numbers == Slice(StripNonDigits(value), 0, 8)
      month == Slice(numbers, 0, 2)
      day == Slice(numbers, 2, 4)
      year == Slice(numbers, 4, 8)
  IN IF Len(numbers) <= 2 THEN numbers
     ELSE IF Len(numbers) <= 4
       THEN IF ParseInt(month) > 12
              THEN <<"1", "2", "/">> \o Slice(numbers, 2, Len(numbers))
              ELSE month \o <<"/">> \o Slice(numbers, 2, Len(numbers))
     ELSE (IF ParseInt(month) > 12 THEN <<"1", "2">> ELSE month)
            \o (IF ParseInt(day) > 31 THEN <<"/", "3", "1">> ELSE <<"/">> \o day)
            \o (IF year # <<>> THEN <<"/">> \o year ELSE <<>>)

FormattedValue(name, value) ==
  CASE name \in {"phone", "altNumber"} -> FormatPhoneNumber(value)
    [] name \in {"dateOfBirth", "doidol", "orderDate"} -> DateMask(value)
    [] OTHER -> value

HandleChange ==
  /\ FormRendered(form)
  /\ \E name \in FieldNames :
       \E value \in Typed[name] :
         SetForm([form EXCEPT !.formData =
           [n \in DOMAIN @ |-> IF n = name THEN FormattedValue(name, value) ELSE @[n]]])

\* lines 437-446
SubmissionData(formData, tz) ==
  [formData EXCEPT
     !.dateOfBirth = IF formData.dateOfBirth # <<>>
                       THEN ParseDate(formData.dateOfBirth, tz) ELSE Null,
     !.doidol = IF formData.doidol # <<>> THEN ParseDate(formData.doidol, tz) ELSE Null,
     !.orderDate = IF formData.orderDate # <<>>
                     THEN ParseDate(formData.orderDate, tz) ELSE Null,
     !.procedures = [i \in 1..Len(formData.procedures) |->
                       [formData.procedures[i] EXCEPT
                          !.scheduleDate = ParseDate(formData.procedures[i].scheduleDate, tz)]]]

MaxProcedures == 1

\* addProcedure
AddProcedure ==
  /\ FormRendered(form)
  /\ Len(form.formData.procedures) < MaxProcedures
  /\ SetForm([form EXCEPT !.formData.procedures =
       Append(@, [examId |-> <<>>, scheduleDate |-> <<>>, scheduleTime |-> <<>>,
                  facilityId |-> <<>>, physicianId |-> <<>>, statusId |-> <<>>])])

\* what the user may pick in a procedure's inputs: the empty option of the
\* exam select, a day in the date input (its value is YYYY-MM-DD)
ProcedureTyped ==
  [examId |-> {<<>>},
   scheduleDate |-> {<<"2", "0", "2", "4", "-", "0", "3", "-", "0", "5">>}]

\* updateProcedure
UpdateProcedure ==
  /\ FormRendered(form)
  /\ \E index \in 1..Len(form.formData.procedures), field \in DOMAIN ProcedureTyped :
       \E value \in ProcedureTyped[field] :
         SetForm([form EXCEPT !.formData.procedures[index] =
           [n \in DOMAIN @ |-> IF n = field THEN value ELSE @[n]]])

\* line 409
MissingRequired(formData) ==
  \/ Trim(formData.firstName) = <<>> \/ Trim(formData.lastName) = <<>>
  \/ formData.payerId = <<>> \/ formData.statusId = <<>>

\* a submit handler without the loop over the procedures
IncompleteProcedureNever(formData) == FALSE

\* lines 415-420
IncompleteProcedure(formData) ==
  \E i \in 1..Len(formData.procedures) :
    LET proc == formData.procedures[i]
    IN \/ proc.examId = <<>> \/ proc.scheduleDate = <<>>
       \/ proc.scheduleTime = <<>> \/ proc.facilityId = <<>>
       \/ proc.physicianId = <<>> \/ proc.statusId = <<>>

\* handleSubmit up to the await of the PUT; the submit event reaches it with
\* the browser's check of the required inputs (a click on Save Changes) or
\* without it (an event dispatched on the form)
HandleSubmit ==
  /\ FormRendered(form)
  /\ \E validated \in BOOLEAN : validated => RequiredFilled(form.formData)
  /\ LET formData == form.formData
         submissionData == SubmissionData(formData, form.tz)
     IN IF MissingRequired(formData)
          THEN SetForm([form EXCEPT
                 !.error = "First name, last name, payer, and status are required"])
        ELSE IF IncompleteProcedure(formData)
          THEN SetForm([form EXCEPT !.error = "All procedure fields are required"])
        ELSE IF submissionData.dateOfBirth = Null
          THEN SetForm([form EXCEPT
                 !.error = "Invalid date of birth format. Please use MM/DD/YYYY",
                 !.loading = FALSE])
        ELSE SetForm([form EXCEPT
               !.error = "", !.loading = TRUE, !.put = "inflight",
               !.sent = submissionData, !.submitted = formData])

\* a handler whose catch block is not followed by finally
SubmitResponseWithoutFinally ==
  /\ form.pc = "mounted" /\ form.put = "inflight"
  /\ \E outcome \in {"ok", "not ok", "network error"} :
       IF outcome = "ok"
         THEN SetForm([form EXCEPT !.put = "ok", !.pc = "left", !.loading = FALSE])
         ELSE SetForm([form EXCEPT !.put = "failed",
                                   !.error = "Failed to update patient"])

\* handleSubmit from the response of the PUT on
SubmitResponse ==
  /\ form.pc = "mounted" /\ form.put = "inflight"
  /\ \E outcome \in {"ok", "not ok", "network error"} :
       IF outcome = "ok"
         THEN SetForm([form EXCEPT !.put = "ok", !.pc = "left", !.loading = FALSE])
         ELSE SetForm([form EXCEPT !.put = "failed", !.loading = FALSE,
                                   !.error = "Failed to update patient"])

\* the Back to Patients and Cancel buttons
Leave ==
  /\ FormRendered(form)
  /\ SetForm([form EXCEPT !.pc = "left"])

NextForm ==
  \/ FetchPatient
  \/ FetchList
  \/ HandleChange
  \/ AddProcedure
  \/ UpdateProcedure
  \/ HandleSubmit
  \/ SubmitResponse
  \/ Leave

SpecForm == InitForm /\ [][NextForm]_vars

(* The date mask on its own: what handleChange stores for a typed value, and
   for that stored value typed again. *)

MaxMaskLen == 9
MaskAlphabet == {"1", "4", "/"}

InitMask ==
  /\ db = EmptyDb /\ nextId = SeedUserId /\ req = [s \in Slots |-> Idle]
  /\ form = FormIdle
  /\ \E value \in StringsUpTo(MaskAlphabet, MaxMaskLen) :
       calc = [fn |-> "mask", pc |-> "input", input |-> value,
               once |-> <<>>, twice |-> <<>>]

CallDateMask ==
  /\ calc.fn = "mask" /\ calc.pc = "input"
  /\ calc' = [calc EXCEPT !.pc = "once", !.once = DateMask(calc.input)]
  /\ UNCHANGED <<apiVars, form>>

CallDateMaskAgain ==
  /\ calc.fn = "mask" /\ calc.pc = "once"
  /\ calc' = [calc EXCEPT !.pc = "twice", !.twice = DateMask(calc.once)]
  /\ UNCHANGED <<apiVars, form>>

NextMask == CallDateMask \/ CallDateMaskAgain

SpecMask == InitMask /\ [][NextMask]_vars

\* the promise of fetch settles: it resolves with a response or rejects
SpecFormLive == SpecForm /\ WF_vars(SubmitResponse)

----------------------------------------------------------------------------
(* Specification *)

Init ==
  /\ db \in {EmptyDb, SeededDb, TaskedDb}
  /\ nextId = CASE db = EmptyDb -> SeedUserId
                [] db = SeededDb -> SeedCaseManagerId + 1
                [] OTHER -> SecondTaskId + 1
  /\ req = [s \in Slots |-> Idle]
  /\ calc = CalcIdle
  /\ form = FormIdle

Next ==
  \E s \in Slots :
    \/ GET(s)
    \/ POST(s)
    \/ PostFindUser(s)
    \/ PostCreateUser(s)
    \/ PostCreateAttorney(s)
    \/ PostCreateCaseManagers(s)
    \/ PostCommit(s)
    \/ PUT(s)
    \/ DELETE(s)
    \/ DeleteFind(s)
    \/ DeleteCaseManagers(s)
    \/ DeleteAttorney(s)
    \/ DeleteUser(s)
    \/ DeleteCommit(s)
    \/ TaskGET(s)
    \/ TaskPOST(s)

Spec == Init /\ [][Next]_vars

----------------------------------------------------------------------------
(* Properties *)

Done(s) == req[s].pc = "done"

HasUser(id) == \E u \in db.users : u.id = id
HasAttorney(id) == \E a \in db.attorneys : a.id = id
ManagersOf(id) == {c \in db.caseManagers : c.attorneyId = id}

\* the case managers of a POST request that pass the filter
Accepted(s) == Len(ValidCaseManagers(req[s].body.caseManagers))

\* C1: attorney POST is all-or-nothing. At every moment the store (which is
\* what GET and the email pre-check of a later POST read) holds, for each
\* POST request that has begun its creation, either its User, its Attorney
\* and all its accepted CaseManagers, or none of them; a request in which a
\* step failed leaves none; and no User of role ATTORNEY is stored without
\* its Attorney, nor an Attorney without its User.
C1_PostAllOrNothing ==
  /\ \A s \in Slots :
       (req[s].op = "POST" /\ req[s].uid # NoId) =>
         LET cms == ManagersOf(req[s].aid)
             all == /\ HasUser(req[s].uid)
                    /\ req[s].aid # NoId /\ HasAttorney(req[s].aid)
                    /\ Cardinality(cms) = Accepted(s)
             none == /\ ~ HasUser(req[s].uid)
                     /\ ~ HasAttorney(req[s].aid)
                     /\ (req[s].aid # NoId => cms = {})
         IN /\ all \/ none
            /\ (Done(s) /\ req[s].status # 200) => none
            /\ ~ Done(s) => none
  /\ \A u \in db.users :
       u.role = "ATTORNEY" => \E a \in db.attorneys : a.userId = u.id
  /\ \A a \in db.attorneys : HasUser(a.userId)
  /\ \A s \in Slots :
       (req[s].op = "GET" /\ req[s].status = 200) =>
         \A i \in 1..Len(req[s].result) :
           req[s].result[i].user.email # ""

\* a POST whose attorney.create failed after its user.create had been made,
\* while the other request is a completed read
C1_Witness ==
  \E s, t \in Slots :
    /\ req[s].op = "POST" /\ Done(s) /\ req[s].uid # NoId
    /\ req[s].fault \in {"known", "error"}
    /\ req[t].op = "GET" /\ Done(t)

SucceededDelete == \E s \in Slots : req[s].op = "DELETE" /\ req[s].status = 200

PostsOf(e) == {s \in Slots : req[s].op = "POST" /\ req[s].body.email = e
                               /\ req[s].pc # "idle"}

\* the password POST stores for the body of request s (line 138)
StoredPassword(s) ==
  IF req[s].body.hasLogin /\ req[s].body.password # ""
  THEN Hash(req[s].body.password) ELSE ""

\* C2: POST requests carrying the same email, sequential or interleaved. No
\* two User rows ever share an email. While no attorney has been deleted, at
\* most one of the requests (counting the row the store started with) has
\* succeeded, and once all of them are answered and none met a storage
\* failure other than the uniqueness violation, exactly one has; each other
\* one is answered 400, has written nothing and none of its rows exists; the
\* winner's User row is the one the winner wrote.
C2_SameEmailOneWinner ==
  /\ \A u1, u2 \in db.users : u1.email = u2.email => u1.id = u2.id
  /\ ~ SucceededDelete =>
       \A e \in Emails :
         LET posts == PostsOf(e)
             winners == {s \in posts : req[s].status = 200}
             seeded == IF \E u \in db.users :
                               u.email = e /\ \A s \in Slots : req[s].uid # u.id
                       THEN 1 ELSE 0
         IN /\ Cardinality(winners) + seeded <= 1
            /\ ( /\ posts # {}
                 /\ \A s \in posts : Done(s) /\ req[s].fault \notin {"known", "error"}
                 /\ \E s \in posts : Truthy(req[s].body.name)
                                       /\ (req[s].body.hasLogin => Truthy(req[s].body.password)) )
               => Cardinality(winners) + seeded = 1
            /\ \A s \in posts :
                 (Done(s) /\ s \notin winners) =>
                   /\ req[s].status \in {400, 500}
                   /\ (req[s].fault \notin {"known", "error"} => req[s].status = 400)
                   /\ ~ req[s].wrote
                   /\ ~ HasUser(req[s].uid) /\ ~ HasAttorney(req[s].aid)
                   /\ (req[s].aid # NoId => ManagersOf(req[s].aid) = {})
            /\ \A s \in winners :
                 \E u \in db.users :
                   /\ u.id = req[s].uid /\ u.email = e
                   /\ u.name = req[s].body.name
                   /\ u.password = StoredPassword(s)

\* two requests with the same email have both passed the pre-flight read and
\* both made their user.create; one has won, the other was refused
C2_Witness ==
  \E s, t \in Slots :
    /\ s # t
    /\ req[s].op = "POST" /\ req[t].op = "POST"
    /\ req[s].body.email = req[t].body.email
    /\ req[s].uid # NoId /\ req[t].uid # NoId
    /\ req[s].status = 200
    /\ req[t].status = 400 /\ req[t].fault = "P2002"
    /\ StoredPassword(s) # StoredPassword(t)

\* C3: after a successful DELETE of attorney X, X, every CaseManager of X and
\* the User of X are gone; and in no state does a CaseManager reference an
\* Attorney that is not stored.
C3_DeleteCascades ==
  /\ \A c \in db.caseManagers : HasAttorney(c.attorneyId)
  /\ \A s \in Slots :
       (req[s].op = "DELETE" /\ req[s].status = 200) =>
         /\ ~ HasAttorney(req[s].id)
         /\ ManagersOf(req[s].id) = {}
         /\ ~ HasUser(req[s].attorney.userId)

\* a DELETE has succeeded on an attorney that had case managers
C3_Witness ==
  \E s \in Slots :
    /\ req[s].op = "DELETE" /\ req[s].status = 200
    /\ req[s].buf.delCaseManagers # {}
    /\ req[s].buf.delAttorneys # {} /\ req[s].buf.delUsers # {}

\* C4: referential integrity in every reachable state: every Attorney.userId
\* names a stored User, every CaseManager.attorneyId a stored Attorney, and
\* every Task.assignedToId a stored User.
C4_ReferentialIntegrity ==
  /\ \A a \in db.attorneys : HasUser(a.userId)
  /\ \A c \in db.caseManagers : HasAttorney(c.attorneyId)
  /\ \A t \in db.tasks : HasUser(t.assignedToId)

Authorized(r) ==
  /\ r.authHeader.kind = "valid"
  /\ r.authHeader.role = "ADMIN" \/ r.authHeader.userId = r.attorney.userId

\* C6: PUT for an existing attorney X under a verified token: 200 with the
\* updated attorney when the token is ADMIN's or the owner's, 403 otherwise.
C6_PutAuthorization ==
  \A s \in Slots :
    (req[s].op = "PUT" /\ Done(s) /\ req[s].attorney # NoAttorney
       /\ req[s].authHeader.kind = "valid") =>
      IF Authorized(req[s])
      THEN req[s].status = 200 /\ Len(req[s].result) = 1
      ELSE req[s].status = 403

\* the responses by which POST rejects a body
PostRejections == {"Name and email are required",
                   "Password is required when login access is enabled",
                   "Email already registered"}

\* C7: a POST /api/attorneys that carries no credential (and that neither
\* validation nor the store rejects) is answered 401 and creates no User,
\* Attorney or CaseManager row.
C7_PostRequiresCredential ==
  \A s \in Slots :
    (req[s].op = "POST" /\ Done(s)
       /\ req[s].authHeader.kind = "none" /\ req[s].cookie.kind = "none"
       /\ req[s].msg \notin PostRejections /\ req[s].fault = "none") =>
      /\ req[s].status = 401
      /\ ~ req[s].wrote
      /\ ~ HasUser(req[s].uid) /\ ~ HasAttorney(req[s].aid)

\* C8: a PUT or DELETE with an id whose credential fails verification is
\* answered 401, and changes no row.
C8_BadCredentialUnauthorized ==
  \A s \in Slots :
    (req[s].op \in {"PUT", "DELETE"} /\ Done(s) /\ req[s].id # NoId
       /\ (req[s].authHeader.kind = "bad" \/ req[s].cookie.kind = "bad")) =>
      req[s].status = 401 /\ ~ req[s].wrote

\* C9: an authorized PUT for an existing attorney X with a non-empty password
\* in its body sets the password hash of X's User and applies exactly the
\* attorney fields of the body: absent fields and the userId keep their
\* values, and no other User or Attorney changes.
C9_PutPassword ==
  [][\A s \in Slots :
       (req[s].pc = "idle" /\ req'[s].op = "PUT" /\ req'[s].attorney # NoAttorney
          /\ Authorized(req'[s]) /\ Truthy(req'[s].body.password)) =>
         LET x == req'[s].attorney
             b == req'[s].body
         IN /\ \E u \in db'.users :
                 u.id = x.userId /\ u.password = Hash(b.password)
            /\ \E a \in db'.attorneys :
                 /\ a.id = x.id /\ a.userId = x.userId
                 /\ a.phone = IF b.phone # "" THEN b.phone ELSE x.phone
            /\ {u \in db'.users : u.id # x.userId} = {u \in db.users : u.id # x.userId}
            /\ {a \in db'.attorneys : a.id # x.id} = {a \in db.attorneys : a.id # x.id}
    ]_vars

\* C10: an authorized PUT for an id no attorney carries is answered 404 and
\* leaves the store unchanged.
C10_PutNotFound ==
  \A s \in Slots :
    (req[s].op = "PUT" /\ Done(s) /\ req[s].id # NoId
       /\ req[s].attorney = NoAttorney
       /\ req[s].authHeader.kind = "valid" /\ req[s].authHeader.role = "ADMIN") =>
      req[s].status = 404 /\ ~ req[s].wrote

\* C11: a POST with a name, a fresh email and a falsy hasLogin that succeeds
\* has created exactly one User, of role ATTORNEY and with the empty string
\* as password (whatever password the body carries), and exactly one
\* Attorney, whose userId is that User's id; the response is that Attorney
\* with a nested user holding the submitted name and email.
C11_PostWithoutLogin ==
  [][\A s \in Slots :
       (req[s].pc = "postCommit" /\ req'[s].status = 200
          /\ ~ req[s].body.hasLogin) =>
         LET b == req[s].body
             newUsers == db'.users \ db.users
             newAttorneys == db'.attorneys \ db.attorneys
         IN /\ newUsers = {[id |-> req[s].uid, email |-> b.email, name |-> b.name,
                            role |-> "ATTORNEY", password |-> ""]}
            /\ db.users \subseteq db'.users
            /\ Cardinality(newAttorneys) = 1
            /\ \A a \in newAttorneys : a.userId = req[s].uid /\ a.id = req[s].aid
            /\ db.attorneys \subseteq db'.attorneys
            /\ Len(req'[s].result) = 1
            /\ req'[s].result[1].id = req[s].aid
            /\ req'[s].result[1].userId = req[s].uid
            /\ req'[s].result[1].user = [name |-> b.name, email |-> b.email]
    ]_vars

\* such a POST, whose body also carried a password, has succeeded
C11_Witness ==
  \E s \in Slots :
    /\ req[s].op = "POST" /\ req[s].status = 200
    /\ ~ req[s].body.hasLogin /\ req[s].body.password = "pw"
    /\ \E u \in db.users : u.id = req[s].uid /\ u.password = ""

RECURSIVE IdsOf(_)
IdsOf(rows) == IF rows = <<>> THEN <<>> ELSE <<Head(rows).id>> \o IdsOf(Tail(rows))

\* C12: the lists answered by GET /api/attorneys (without id) and by
\* GET /api/tasks hold every stored row of the entity exactly once, a row
\* created later before every row created earlier.
C12_ListsNewestFirst ==
  [][\A s \in Slots :
       (req[s].pc = "idle" /\ req'[s].status = 200
          /\ \/ req'[s].op = "GET" /\ req'[s].id = NoId
             \/ req'[s].op = "TaskGET") =>
         LET rows == IF req'[s].op = "GET" THEN db.attorneys ELSE db.tasks
             ids == IdsOf(req'[s].result)
         IN /\ Len(ids) = Cardinality(rows)
            /\ {ids[i] : i \in 1..Len(ids)} = {x.id : x \in rows}
            /\ \A i, j \in 1..Len(ids) : i < j => ids[i] > ids[j]
    ]_vars

\* both lists have been answered with two rows
C12_Witness ==
  \E s, t \in Slots :
    /\ req[s].op = "GET" /\ req[s].id = NoId /\ req[s].status = 200
    /\ req[t].op = "TaskGET" /\ req[t].status = 200
    /\ Len(req[t].result) = 2
    /\ req[t].result[1].id > req[t].result[2].id

\* the fixed messages of the 500 responses
GenericMessages == {"Failed to fetch attorneys", "Error creating attorney",
                    "Failed to update attorney", "Failed to delete attorney",
                    "Internal error"}

\* C13: a request that met an unexpected storage or runtime failure (any
\* failure but the uniqueness violation) is answered 500 with a fixed
\* generic message.
C13_GenericInternalError ==
  \A s \in Slots :
    (Done(s) /\ req[s].fault \notin {"none", "P2002"}) =>
      req[s].status = 500 /\ req[s].msg \in GenericMessages

\* MM/DD/YYYY denotes a real calendar date
IsRealDate(m, d, y) == m \in 1..12 /\ d >= 1 /\ d <= DaysInMonth(y, m)

\* C14: parseDate returns null for every MM/DD/YYYY string that denotes no
\* real calendar date of the years 1900..2100.
C14_ParseRejectsInvalid ==
  (calc.fn = "date" /\ calc.pc # "input" /\ calc.malformed = "no"
     /\ ~ (IsRealDate(calc.month, calc.day, calc.year)
             /\ calc.year >= 1900 /\ calc.year <= 2100)) =>
    calc.parsed = Null

\* C15: for every zero-padded MM/DD/YYYY of a real calendar date with the year
\* in 1900..2100, formatDate(parseDate(s)) = s.
C15_DateRoundTrip ==
  (calc.fn = "date" /\ calc.pc = "formatted" /\ calc.malformed = "no"
     /\ IsRealDate(calc.month, calc.day, calc.year)
     /\ calc.year >= 1900 /\ calc.year <= 2100) =>
    /\ calc.parsed # Null
    /\ calc.formatted = calc.input

\* a leap day has made the round trip east of Greenwich, where the ISO text
\* carries the day before
C15_Witness ==
  /\ calc.fn = "date" /\ calc.pc = "formatted"
  /\ calc.input = DateText(2, 29, 2024) /\ calc.tz = 330
  /\ Slice(calc.parsed, 0, 10) = <<"2", "0", "2", "4", "-", "0", "2", "-", "2", "8">>
  /\ calc.formatted = calc.input

\* the digits d laid out on a template, X standing for a digit, cut off after
\* the last digit of d
RECURSIVE LaidOut(_, _)
LaidOut(template, d) ==
  IF d = <<>> \/ template = <<>> THEN <<>>
  ELSE IF Head(template) = "X" THEN <<Head(d)>> \o LaidOut(Tail(template), Tail(d))
  ELSE <<Head(template)>> \o LaidOut(Tail(template), d)

PhoneTemplate == <<"(", "X", "X", "X", ")", " ", "X", "X", "X", "-", "X", "X", "X", "X">>

Formatted == calc.fn = "phone" /\ calc.pc = "formatted"

\* C16 as stated: for every digit string d of length 0..10,
\* formatPhoneNumber(d) is d laid out on (XXX) XXX-XXXX cut off after the last
\* digit, and stripping the non-digits of the result gives back d.
C16_PhoneTemplateEveryLength ==
  (Formatted /\ Len(calc.input) <= 10) =>
    /\ calc.output = LaidOut(PhoneTemplate, calc.input)
    /\ StripNonDigits(calc.output) = calc.input

\* C16 amended: for every digit string d of length 0..10, formatPhoneNumber(d)
\* is d itself when d has at most three digits and d laid out on
\* (XXX) XXX-XXXX cut off after the last digit when it has four to ten, and
\* stripping the non-digits of the result gives back d.
C16_PhoneTemplate ==
  (Formatted /\ Len(calc.input) <= 10) =>
    /\ Len(calc.input) <= 3 => calc.output = calc.input
    /\ Len(calc.input) > 3 => calc.output = LaidOut(PhoneTemplate, calc.input)
    /\ StripNonDigits(calc.output) = calc.input

\* a full ten-digit number has been formatted
C16_Witness ==
  /\ Formatted
  /\ calc.input = <<"7", "0", "7", "0", "0", "7", "7", "0", "0", "7">>
  /\ calc.output = <<"(", "7", "0", "7", ")", " ", "0", "0", "7", "-", "7", "0", "0", "7">>

\* a PUT /api/patients/{id} has been sent
Sent == form.pc # "unmounted" /\ form.put # "none"

\* C17: the phone and altNumber of the PUT payload have had all non-digit
\* characters stripped.
C17_PayloadPhoneDigitsOnly ==
  Sent =>
    /\ form.sent.phone = StripNonDigits(form.sent.phone)
    /\ form.sent.altNumber = StripNonDigits(form.sent.altNumber)

\* C18: after a submit whose PUT failed, the banner shows, formData is what
\* it was at the submit, and the form is rendered so that it can be submitted
\* again.
C18_FailedSubmitKeepsForm ==
  (form.pc = "mounted" /\ form.put = "failed") =>
    /\ form.error = "Failed to update patient" \/ form.error \in {"Failed to load " \o n : n \in ListNames}
    /\ form.formData = form.submitted
    /\ ~ form.loading
    /\ FormRendered(form) /\ RequiredFilled(form.formData)

\* the tasks a finished request left in the store
TasksOf(s) == {t \in db.tasks : req[s].result # <<>> /\ t.id = req[s].result[1].id}

\* C19: GET and POST /api/tasks without a session answer 401, write nothing
\* and create no Task; with a session, POST with a title creates exactly one
\* Task and returns it with its assignee's id, name and email.
C19_TasksRequireSession ==
  \A s \in Slots :
    (Done(s) /\ req[s].op \in {"TaskGET", "TaskPOST"}) =>
      /\ ~ req[s].session =>
           req[s].status = 401 /\ ~ req[s].wrote /\ req[s].result = <<>>
      /\ (req[s].session /\ req[s].op = "TaskPOST" /\ Truthy(req[s].body.title)) =>
           /\ req[s].status = 200
           /\ req[s].wrote
           /\ Cardinality(TasksOf(s)) = 1
           /\ req[s].result[1].title = req[s].body.title
           /\ req[s].result[1].assignedTo.id = req[s].body.assignedToId
           /\ Truthy(req[s].result[1].assignedTo.name)
           /\ Truthy(req[s].result[1].assignedTo.email)

\* the authorization decision a response shows
Decision(r) ==
  CASE r.status = 401 -> "unauthorized"
    [] r.status = 403 -> "forbidden"
    [] OTHER -> "allowed"

\* the credential a request carries, in whichever carrier
CredentialOf(r) == IF r.authHeader # NoCred THEN r.authHeader ELSE r.cookie

\* C20: for the same valid ADMIN token, attorney PUT and attorney DELETE each
\* reach the same authorization decision whether the token arrives in the
\* Authorization header or in the token cookie.
C20_EitherCarrier ==
  \A s, t \in Slots :
    (/\ Done(s) /\ Done(t)
     /\ req[s].op \in {"PUT", "DELETE"} /\ req[t].op = req[s].op
     /\ req[s].id # NoId /\ req[t].id = req[s].id
     /\ CredentialOf(req[s]) = AdminCred /\ CredentialOf(req[t]) = AdminCred) =>
      Decision(req[s]) = Decision(req[t])

\* a string is blank: empty or made of spaces
Blank(str) == \A i \in 1..Len(str) : str[i] = " "

\* a patient form that must not be sent
Unsendable(formData) ==
  \/ Blank(formData.firstName) \/ Blank(formData.lastName)
  \/ formData.payerId = <<>> \/ formData.statusId = <<>>
  \/ \E i \in 1..Len(formData.procedures) :
       \E field \in {"examId", "scheduleDate", "scheduleTime", "facilityId",
                     "physicianId", "statusId"} :
         formData.procedures[i][field] = <<>>

\* C21: a handleSubmit on a form with a blank firstName or lastName, an empty
\* payerId or statusId, or a procedure lacking a required field sends no PUT,
\* sets an error and leaves formData unchanged.
C21_NoPutWhenRequiredMissing ==
  [][(/\ FormRendered(form) /\ Unsendable(form.formData)
      /\ form'.listsPending = form.listsPending
      /\ HandleSubmit) =>
       /\ form'.put = form.put /\ form'.sent = form.sent
       /\ Truthy(form'.error)
       /\ form'.formData = form.formData]_vars

\* a submit was refused for a procedure without an exam
C21_Witness ==
  /\ form.pc = "mounted" /\ form.put = "none"
  /\ form.error = "All procedure fields are required"
  /\ Len(form.formData.procedures) = 1
  /\ form.formData.procedures[1].examId = <<>>
  /\ form.formData.procedures[1].scheduleTime # <<>>

\* C22: every PUT payload carries a parsed dateOfBirth and, for each of its
\* procedures, a parsed scheduleDate: none of them is null.
C22_PayloadDatesParsed ==
  Sent =>
    /\ form.sent.dateOfBirth # Null
    /\ \A i \in 1..Len(form.sent.procedures) :
         form.sent.procedures[i].scheduleDate # Null

\* a request that carries no credential of any kind
Uncredentialed(r) == r.authHeader = NoCred /\ r.cookie = NoCred /\ ~ r.session

\* a request that fails validation: no id parameter, or no title
Invalid(r) ==
  \/ r.op \in {"PUT", "DELETE"} /\ r.id = NoId
  \/ r.op = "TaskPOST" /\ ~ Truthy(r.body.title)

\* C23: a task POST, attorney PUT or attorney DELETE that is both invalid and
\* uncredentialed is answered 400, not 401.
C23_ValidationBeforeAuthorization ==
  \A s \in Slots :
    (Done(s) /\ Invalid(req[s]) /\ Uncredentialed(req[s])) => req[s].status = 400

\* request s is an authorized DELETE of the seeded attorney
AuthorizedDelete(s) ==
  /\ req[s].op = "DELETE" /\ req[s].id = SeedAttorneyId
  /\ req[s].cookie \in {AdminCred, OwnerCred}

C25_PutAlwaysUnauthorized ==
  \A s \in Slots :
    (Done(s) /\ req[s].op = "PUT") =>
      /\ ~ req[s].wrote
      /\ (req[s].id # NoId /\ req[s].authHeader # NoCred) =>
           req[s].status = 401 /\ req[s].result = <<>>

\* an ADMIN's PUT for the seeded attorney, with a password to set, was refused
C25_Witness ==
  \E s \in Slots :
    /\ Done(s) /\ req[s].op = "PUT" /\ req[s].id = SeedAttorneyId
    /\ req[s].authHeader = AdminCred /\ Truthy(req[s].body.password)
    /\ HasAttorney(SeedAttorneyId)
    /\ req[s].status = 401

\* request s is a POST that answered 200
CreatedBy(s) == Done(s) /\ req[s].op = "POST" /\ req[s].status = 200

\* request t is a GET by id that answered with the attorney request s created
ReadBack(s, t) ==
  /\ CreatedBy(s)
  /\ Done(t) /\ req[t].op = "GET" /\ req[t].status = 200
  /\ req[t].id = req[s].aid

\* C26: the attorney a successful POST returns has an empty caseManagers
\* list; a following GET by id of that attorney returns the CaseManagers the
\* POST persisted, so the two differ whenever one was accepted.
C26_PostResponseOmitsManagers ==
  \A s \in Slots :
    CreatedBy(s) =>
      /\ Len(req[s].result) = 1
      /\ req[s].result[1].id = req[s].aid
      /\ req[s].result[1].caseManagers = {}
      /\ \A t \in Slots :
           ReadBack(s, t) =>
             /\ Len(req[t].result) = 1
             /\ req[t].result[1].id = req[s].aid
             /\ Cardinality(req[t].result[1].caseManagers) = Accepted(s)
             /\ \A c \in req[t].result[1].caseManagers : c.attorneyId = req[s].aid
             /\ Accepted(s) > 0 => req[t].result[1] # req[s].result[1]

\* a POST persisted a case manager and the GET after it returned it
C26_Witness ==
  \E s, t \in Slots :
    /\ ReadBack(s, t) /\ Accepted(s) = 1
    /\ Cardinality(req[t].result[1].caseManagers) = 1
    /\ req[s].result[1].caseManagers = {}

\* the names of the submitted case managers that have a name, an email and a
\* phone
CompleteNames(cms) ==
  {cms[i].name : i \in {j \in 1..Len(cms) :
     cms[j].name # "" /\ cms[j].email # "" /\ cms[j].phone # ""}}

\* C27: a successful attorney POST persists exactly its submitted case
\* managers that have name, email and phone, each under the new attorney's
\* id; incomplete entries are dropped and the request still answers 200 with
\* its User and Attorney created; no CaseManager is attached to an attorney
\* that existed before.
C27_ValidManagersPersisted ==
  /\ \A s \in Slots :
       (CreatedBy(s) /\ ~ SucceededDelete) =>
         /\ HasUser(req[s].uid) /\ HasAttorney(req[s].aid)
         /\ {c.name : c \in ManagersOf(req[s].aid)} =
              CompleteNames(req[s].body.caseManagers)
         /\ Cardinality(ManagersOf(req[s].aid)) =
              Cardinality(CompleteNames(req[s].body.caseManagers))
  /\ \A c \in db.caseManagers :
       \/ c \in SeededDb.caseManagers
       \/ \E s \in Slots : CreatedBy(s) /\ c.attorneyId = req[s].aid /\ c.id > req[s].aid

\* a POST with one complete and one incomplete case manager answered 200 and
\* persisted the complete one
C27_Witness ==
  \E s \in Slots :
    /\ CreatedBy(s) /\ req[s].body.caseManagers = <<CmOk, CmNoPhone>>
    /\ {c.name : c \in ManagersOf(req[s].aid)} = {CmOk.name}
    /\ HasUser(req[s].uid) /\ HasAttorney(req[s].aid)

\* C28: an attorney DELETE without a token cookie is answered 400 when the id
\* parameter is missing and 401 otherwise, whatever the store holds; 404 and
\* 403 are answered only under a verified token, and the checks come in the
\* order 400, 401, 404, 403.
C28_DeleteCheckOrder ==
  \A s \in Slots :
    (Done(s) /\ req[s].op = "DELETE") =>
      /\ req[s].id = NoId => req[s].status = 400
      /\ (req[s].id # NoId /\ req[s].cookie = NoCred) => req[s].status = 401
      /\ req[s].status \in {403, 404} =>
           req[s].cookie.kind = "valid" /\ req[s].id # NoId
      /\ (req[s].id = MissingId /\ req[s].cookie.kind = "valid") => req[s].status = 404
      /\ req[s].status = 403 => req[s].attorney # NoAttorney
      /\ req[s].status \in {400, 401} => ~ req[s].wrote /\ req[s].attorney = NoAttorney

\* a DELETE of the existing attorney with an ADMIN token in the header only
\* was answered 401, and one of a missing id by a stranger was answered 404
C28_Witness ==
  \E s, t \in Slots :
    /\ Done(s) /\ req[s].op = "DELETE" /\ req[s].id = SeedAttorneyId
    /\ req[s].cookie = NoCred /\ req[s].authHeader = AdminCred
    /\ HasAttorney(SeedAttorneyId) /\ req[s].status = 401
    /\ Done(t) /\ req[t].op = "DELETE" /\ req[t].id = MissingId
    /\ req[t].cookie = OtherCred /\ req[t].status = 404

\* C29: loading becomes true only in a handleSubmit that passed the
\* required-field checks and sent the PUT, and every such handleSubmit is
\* followed by loading being false again, whatever the outcome of the PUT; a
\* handleSubmit whose dateOfBirth does not parse leaves loading false.
C29_LoadingIsReset ==
  /\ [][(form'.loading /\ ~ form.loading) =>
          /\ form'.put = "inflight"
          /\ ~ Unsendable(form.formData)
          /\ form'.sent.dateOfBirth # Null]_vars
  /\ ((form.pc = "mounted" /\ form.put = "inflight" /\ form.loading) ~> ~ form.loading)

\* a PUT failed and loading is false again
C29_Witness ==
  /\ form.pc = "mounted" /\ form.put = "failed"
  /\ form.error = "Failed to update patient"
  /\ ~ form.loading

\* the digits typed, in order
TypedDigits == SelectSeq(calc.input, LAMBDA c : c \in {"0", "1", "2", "3", "4", "5", "6", "7", "8", "9"})

\* the number two digits spell
TwoDigits(str) == 10 * DigitValue(str[1]) + DigitValue(str[2])

\* C30: the date mask keeps at most 8 digits; once a third digit is typed a
\* month above 12 is replaced by 12, once a fifth digit is typed a day above
\* 31 is replaced by 31; and the mask applied to its own output returns it
\* unchanged.
C30_DateMaskIdempotent ==
  (calc.fn = "mask" /\ calc.pc # "input") =>
    /\ Len(SelectSeq(calc.once, LAMBDA c : c # "/")) <= 8
    /\ Len(TypedDigits) >= 3 =>
         SubSeq(calc.once, 1, 3) =
           (IF TwoDigits(SubSeq(TypedDigits, 1, 2)) > 12
              THEN <<"1", "2">> ELSE SubSeq(TypedDigits, 1, 2)) \o <<"/">>
    /\ Len(TypedDigits) >= 5 =>
         SubSeq(calc.once, 4, 5) =
           (IF TwoDigits(SubSeq(TypedDigits, 3, 4)) > 31
              THEN <<"3", "1">> ELSE SubSeq(TypedDigits, 3, 4))
    /\ calc.pc = "twice" => calc.twice = calc.once

\* month 14 and day 41 were typed with a year, capped, and masked again
C30_Witness ==
  /\ calc.fn = "mask" /\ calc.pc = "twice"
  /\ calc.input = <<"1", "4", "4", "1", "/", "1", "4", "4", "4">>
  /\ calc.once = <<"1", "2", "/", "3", "1", "/", "1", "4", "4", "4">>
  /\ calc.twice = calc.once

====
